---- MODULE Spec2Model ----
(***************************************************************************)
(* State-machine model of the audiobook generator's chunked generation     *)
(* pipeline (React component App, src/utils/audioUtils.ts lines 169-1068,  *)
(* and the pure helpers at lines 1-168).                                   *)
(*                                                                         *)
(* One invocation of the async callback handleGenerate is a "run".  The    *)
(* JavaScript event loop executes the code between two awaits atomically,  *)
(* so every action below is one such block: a click handler, or the        *)
(* continuation of a run after its pending await returns.  React state     *)
(* updates made inside one block are batched and the effects that depend   *)
(* on them run before the next block.                                      *)
(*                                                                         *)
(* A manuscript is represented by the sequence of its sentences, each      *)
(* sentence by its length in characters; a chunk is the sequence of the    *)
(* sentences packed into it.  PCM buffers are sequences of bytes.          *)
(* The pure helpers are also modelled on strings (sequences of UTF-16 code *)
(* units) and evaluated on their own under PureSpec.                       *)
(***************************************************************************)
EXTENDS Integers, Sequences, FiniteSets, TLC

\* ---------------------------------------------------------------- bounds
\* Invocations of handleGenerate.
MaxRuns == 3
\* Spec: failed calls injected into the attempts on one chunk.
MaxFailures == 3
\* Presses of Stop.
MaxStops == 1
\* DeepSpec: invocations of handleGenerate, one after the other.
DeepRuns == 1
MaxSentences == 2
MaxPcm == 1
\* PureSpec: characters of a text, character budget of a chunk, number and
\* length of the buffers to concatenate.
MaxTextLen == 5
MaxBudget == 6
MaxBuffers == 3
MaxBufLen == 1
\* Invocations of handleGenerateImages.
MaxJobs == 2
\* The largest image count selected (the select offers 1..20).
MaxImages == 2
\* The readings of Date.now() are 1..MaxTime.
MaxTime == 2

\* ------------------------------------------------------ program constants
\* Variant: one attempt too many.
maxRetries_Sixteen == 15 + 1

maxRetries == 15
InitialInterChunkDelay == 2000
RatchetedInterChunkDelay == 6000
PacingNoticeThreshold == 3000
FailFastAttempts == 3
DefaultMaxChars == 2000

Runs == 1..MaxRuns
Jobs == 1..MaxJobs
\* Indices of the chunks of the longest manuscript.
ChunkIndices == 0..(MaxSentences - 1)
\* null / undefined are the empty option, a present value v is Some(v).
None == <<>>
Some(v) == <<v>>

\* Manuscripts: the empty one, one of two short sentences (packed into one chunk)
\* and those of 2..MaxSentences long sentences (one chunk per sentence).
ShortSentence == 400
LongSentence == 1200
Texts ==
  {<<>>, <<ShortSentence, ShortSentence>>}
  \cup {[k \in 1..n |-> LongSentence] : n \in 2..MaxSentences}

\* PCM buffers a synthesis call can return: p bytes of value p.
PcmVals == {[k \in 1..p |-> p] : p \in 1..MaxPcm}

\* Error texts carried by a failed synthesis call (err.message): all of them in
\* DeepSpec, one of them in Spec.
ErrMsgs == {"", "boom"}
SpecErrMsgs == {"boom"}

\* ------------------------------------------------------------ pure helpers
RECURSIVE SumSeq(_)
SumSeq(s) == IF s = <<>> THEN 0 ELSE Head(s) + SumSeq(Tail(s))

\* String length of a chunk: its sentences joined by single spaces.
ChunkLength(c) == IF c = <<>> THEN 0 ELSE SumSeq(c) + Len(c) - 1

\* Variant: the separating space is not counted.
Fits_NoSeparator(currentLength, sentenceLength, maxChars) ==
  currentLength + sentenceLength <= maxChars

\* currentChunk.length + sentence.length + 1 <= maxChars
Fits(currentLength, sentenceLength, maxChars) ==
  currentLength + sentenceLength + 1 <= maxChars

\* Variant: the chunk under construction is dropped at the end of the text.
PushLast_Forgotten(currentChunk, chunks) == chunks

\* After the loop: if (currentChunk) chunks.push(currentChunk)
PushLast(currentChunk, chunks) ==
  IF currentChunk # <<>> THEN Append(chunks, currentChunk) ELSE chunks

RECURSIVE PackSentences(_, _, _, _)
PackSentences(sentences, maxChars, currentChunk, chunks) ==
  IF sentences = <<>>
  THEN PushLast(currentChunk, chunks)
  ELSE LET sentence == Head(sentences) IN
       IF Fits(ChunkLength(currentChunk), sentence, maxChars)
       THEN PackSentences(Tail(sentences), maxChars, Append(currentChunk, sentence), chunks)
       ELSE PackSentences(Tail(sentences), maxChars, <<sentence>>,
                          IF currentChunk # <<>> THEN Append(chunks, currentChunk) ELSE chunks)

createSmartChunks(text, maxChars) == PackSentences(text, maxChars, <<>>, <<>>)

\* ------------------------------------------- the same helpers on characters
\* A string is the sequence of its UTF-16 code units.
\* The class \s of a JavaScript regular expression, which is also what
\* String.prototype.trim strips: tab, line feed, vertical tab, form feed,
\* carriage return, space, U+00A0, U+1680, U+2000..U+200A, U+2028, U+2029,
\* U+202F, U+205F, U+3000 and U+FEFF.
Whitespace ==
  {9, 10, 11, 12, 13, 32, 160, 5760, 8232, 8233, 8239, 8287, 12288, 65279}
  \cup 8192..8202
\* The class [.!?]
Terminators == {46, 33, 63}
\* ' '
Space == 32

\* text.replace(/\s+/g, ' '): every run of whitespace becomes one space.
RECURSIVE CollapseWhitespace(_, _)
CollapseWhitespace(str, inRun) ==
  IF str = <<>> THEN <<>>
  ELSE IF Head(str) \in Whitespace
       THEN (IF inRun THEN <<>> ELSE <<Space>>) \o CollapseWhitespace(Tail(str), TRUE)
       ELSE <<Head(str)>> \o CollapseWhitespace(Tail(str), FALSE)

\* String.prototype.trim
RECURSIVE TrimStart(_)
TrimStart(str) ==
  IF str # <<>> /\ Head(str) \in Whitespace THEN TrimStart(Tail(str)) ELSE str
RECURSIVE TrimEnd(_)
TrimEnd(str) ==
  IF str # <<>> /\ str[Len(str)] \in Whitespace
  THEN TrimEnd(SubSeq(str, 1, Len(str) - 1)) ELSE str
Trim(str) == TrimEnd(TrimStart(str))

\* const cleanedText = text.replace(/\s+/g, ' ').trim()
CleanText(str) == Trim(CollapseWhitespace(str, FALSE))

\* Variant: the text is cut after every terminator, followed by whitespace or not.
IsSeparatorStart_AnyTerminator(previous, c) ==
  previous \in Terminators

\* /(?<=[.!?])\s+/ matches at c: c is whitespace and follows a terminator.
IsSeparatorStart(previous, c) ==
  c \in Whitespace /\ previous \in Terminators

\* str.split(/(?<=[.!?])\s+/): current is the piece under construction, previous
\* the character before the rest (or -1 at the start), skipping is true inside
\* a separator.
RECURSIVE SplitAfterTerminators(_, _, _, _, _)
SplitAfterTerminators(rest, current, pieces, previous, skipping) ==
  IF rest = <<>> THEN Append(pieces, current)
  ELSE LET c == Head(rest) IN
       IF skipping /\ c \in Whitespace
       THEN SplitAfterTerminators(Tail(rest), current, pieces, c, TRUE)
       ELSE IF IsSeparatorStart(previous, c)
       THEN SplitAfterTerminators(
              Tail(rest), IF c \in Whitespace THEN <<>> ELSE <<c>>,
              Append(pieces, current), c, c \in Whitespace)
       ELSE SplitAfterTerminators(Tail(rest), Append(current, c), pieces, c, FALSE)

NonBlank(piece) == Len(Trim(piece)) > 0

splitIntoSentences(str) ==
  SelectSeq(SplitAfterTerminators(CleanText(str), <<>>, <<>>, -1, FALSE), NonBlank)

\* The loop of createSmartChunks over sentences that are strings.
RECURSIVE PackStrings(_, _, _, _)
PackStrings(sentences, maxChars, currentChunk, chunks) ==
  IF sentences = <<>>
  THEN PushLast(currentChunk, chunks)
  ELSE LET sentence == Head(sentences) IN
       IF Fits(Len(currentChunk), Len(sentence), maxChars)
       THEN PackStrings(Tail(sentences), maxChars,
                        currentChunk \o (IF currentChunk # <<>> THEN <<Space>> ELSE <<>>)
                                     \o sentence,
                        chunks)
       ELSE PackStrings(Tail(sentences), maxChars, sentence,
                        IF currentChunk # <<>> THEN Append(chunks, currentChunk) ELSE chunks)

\* createSmartChunks on a string.
createSmartChunksOfString(str, maxChars) ==
  PackStrings(splitIntoSentences(str), maxChars, <<>>, <<>>)

\* buffers.reduce((acc, b) => acc + b.length, 0)
RECURSIVE TotalLength(_)
TotalLength(buffers) ==
  IF buffers = <<>> THEN 0 ELSE Len(Head(buffers)) + TotalLength(Tail(buffers))

\* Variant: the offset is taken as 1-based.
SetAt_Shifted(result, buffer, offset) ==
  [k \in 1..Len(result) |->
     IF k >= offset /\ k < offset + Len(buffer) /\ k >= 1 THEN buffer[k - offset + 1]
     ELSE result[k]]

\* result.set(buffer, offset): the bytes of buffer written from offset (0-based) on.
SetAt(result, buffer, offset) ==
  [k \in 1..Len(result) |->
     IF k > offset /\ k <= offset + Len(buffer) THEN buffer[k - offset] ELSE result[k]]

\* Variant: the write offset is not advanced.
NextOffset_Stuck(offset, buffer) == offset

\* offset += buffer.length
NextOffset(offset, buffer) == offset + Len(buffer)

\* for (const buffer of buffers) { result.set(buffer, offset); offset += buffer.length }
RECURSIVE CopyBuffers(_, _, _)
CopyBuffers(result, buffers, offset) ==
  IF buffers = <<>> THEN result
  ELSE CopyBuffers(SetAt(result, Head(buffers), offset), Tail(buffers),
                   NextOffset(offset, Head(buffers)))

concatenateAudioBuffers(buffers) ==
  CopyBuffers([k \in 1..TotalLength(buffers) |-> 0], buffers, 0)

SAMPLE_RATE == 24000
NUM_CHANNELS == 1

\* view.setUint32(offset, n, true) and view.setUint16(offset, n, true): little endian.
Uint32LE(n) ==
  <<n % 256, (n \div 256) % 256, (n \div 65536) % 256, (n \div 16777216) % 256>>
Uint16LE(n) == <<n % 256, (n \div 256) % 256>>

\* writeString: the char codes of 'RIFF', 'WAVE', 'fmt ' and 'data'.
RIFF == <<82, 73, 70, 70>>
WAVE == <<87, 65, 86, 69>>
FMT == <<102, 109, 116, 32>>
DATA == <<100, 97, 116, 97>>

\* The 44 bytes of wavHeader for the given ChunkSize and Subchunk2Size fields.
WavHeader(chunkSize, subchunk2Size) ==
  RIFF \o Uint32LE(chunkSize) \o WAVE
  \o FMT \o Uint32LE(16) \o Uint16LE(1) \o Uint16LE(NUM_CHANNELS)
  \o Uint32LE(SAMPLE_RATE) \o Uint32LE(SAMPLE_RATE * NUM_CHANNELS * 2)
  \o Uint16LE(NUM_CHANNELS * 2) \o Uint16LE(16)
  \o DATA \o Uint32LE(subchunk2Size)

\* Variant: ChunkSize counts the whole file.
ChunkSizeField_WholeFile(pcmData) == 44 + Len(pcmData)

\* view.setUint32(4, 36 + pcmData.length, true)
ChunkSizeField(pcmData) == 36 + Len(pcmData)

\* new Blob([wavHeader, pcmData], { type: 'audio/wav' })
createWavFile(pcmData) ==
  [type |-> "audio/wav",
   bytes |-> WavHeader(ChunkSizeField(pcmData), Len(pcmData)) \o pcmData]

IsReady(c) == c.status = "completed" /\ c.data # None

\* updatePreviewSource (lines 352-357): the blob behind the preview URL, none
\* when no chunk is completed with PCM.
PreviewSource(chunks) ==
  LET completedChunks == SelectSeq(chunks, IsReady) IN
  IF Len(completedChunks) = 0 THEN None
  ELSE Some(createWavFile(concatenateAudioBuffers(
              [k \in 1..Len(completedChunks) |-> completedChunks[k].data[1]])))

\* A 16-bit two's complement value read from an unsigned one.
Int16(u) == IF u >= 32768 THEN u - 65536 ELSE u

\* new Int16Array(pcmData.buffer, pcmData.byteOffset, pcmData.byteLength / 2):
\* the little-endian samples of the buffer; the length is truncated to an
\* integer, so that the last byte of a buffer of odd length is left out.
Samples(pcmData) ==
  [k \in 1..(Len(pcmData) \div 2) |-> Int16(pcmData[2 * k - 1] + 256 * pcmData[2 * k])]

\* const blockSize = 1152
Mp3BlockSize == 1152
\* The bit rate given to the encoder.
Mp3Kbps == 128

\* for (let i = 0; i < samples.length; i += blockSize) samples.subarray(i, i + blockSize)
RECURSIVE SampleBlocks(_, _)
SampleBlocks(samples, blockSize) ==
  IF Len(samples) = 0 THEN <<>>
  ELSE IF Len(samples) <= blockSize THEN <<samples>>
  ELSE <<SubSeq(samples, 1, blockSize)>>
       \o SampleBlocks(SubSeq(samples, blockSize + 1, Len(samples)), blockSize)

\* What the lamejs encoder is given, flattened: its three parameters, then the
\* length and the samples of every block passed to encodeBuffer, before flush.
\* The bytes the library emits are a function of these and stand for them.
RECURSIVE FlattenBlocks(_)
FlattenBlocks(blocks) ==
  IF blocks = <<>> THEN <<>>
  ELSE <<Len(Head(blocks))>> \o Head(blocks) \o FlattenBlocks(Tail(blocks))
Mp3EncoderInput(samples) ==
  <<NUM_CHANNELS, SAMPLE_RATE, Mp3Kbps>> \o FlattenBlocks(SampleBlocks(samples, Mp3BlockSize))

\* ------------------------------------------------------------------ state
VARIABLES
  text,             \* useState text: the manuscript
  previewChunks,    \* useState previewChunks
  startChunkIndex,  \* useState startChunkIndex
  audioChunks,      \* useState audioChunks: sequence of [id, status, data]
  generationState,  \* useState generationState
  finalBlob,        \* useState finalBlob
  abortRef,         \* useRef abortRef.current
  run,              \* per invocation of handleGenerate: its position and locals
  obs,              \* per invocation: observations of what it has done
  stops,            \* number of presses of Stop
  call,             \* the pure helper under evaluation: its inputs and its result
  globalStylePrompt, \* useState globalStylePrompt
  imageCounts,      \* useState imageCounts: chunk index -> selected image count
  imageJob,         \* per invocation of handleGenerateImages: its position and locals
  imageObs,         \* observations of the image requests since the last text edit
  format,           \* useState format: "wav" or "mp3"
  lamejs,           \* window.lamejs is defined: the encoder script has loaded
  mounted           \* the component is mounted: no effect has thrown

vars == <<text, previewChunks, startChunkIndex, audioChunks, generationState,
          finalBlob, abortRef, run, obs, stops, call,
          globalStylePrompt, imageCounts, imageJob, imageObs,
          format, lamejs, mounted>>

\* The state of the illustration feature.
imageVars == <<globalStylePrompt, imageCounts, imageJob, imageObs>>

\* Locals of an invocation that has not started or has returned.
NoLocals ==
  [chunks |-> <<>>, start |-> 0, i |-> 0, attempts |-> 0, pcmData |-> None,
   interChunkDelay |-> 0, collectedBuffers |-> <<>>, delay |-> 0, format |-> "wav"]

IdleRun == [pc |-> "idle"] @@ NoLocals

NoObs ==
  [cancelRequested |-> FALSE,  \* Stop was pressed while the run was unsettled
   readyAtStop |-> {},         \* ids of the chunks completed with PCM at that press
   lastCall |-> -1,            \* chunk index of the latest synthesis call
   callsForChunk |-> 0,        \* synthesis calls made for chunk lastCall
   calledAfterStop |-> FALSE,  \* a synthesis call was dispatched after Stop was pressed
   nonRateLimitStreak |-> 0,   \* consecutive non-rate-limit failures on chunk lastCall
                               \* (counted up to FailFastAttempts + 1)
   rateLimitSeen |-> FALSE,    \* a rate-limit failure was observed
   lastFailure |-> "none",     \* kind of the latest failed call on the current chunk:
                               \* "rateLimit" or "other", "none" after a success
   returned |-> <<>>,          \* the PCM buffers the synthesis calls returned, in order
   failedChunk |-> -1,         \* chunk on which the run failed terminally
   lastError |-> None,         \* err of the call whose failure ended the run
   thrown |-> None]            \* the Error the run threw: [part, detail]

\* No pure helper is under evaluation.
NoCall == [fn |-> "none"]

\* Locals of an invocation of handleGenerateImages that has not started.
IdleJob ==
  [pc |-> "idle", chunkIndex |-> 0, count |-> 0, chunkText |-> <<>>, fullPrompt |-> None,
   results |-> <<>>]

NoImageObs ==
  [styleRequests |-> 0,  \* style descriptions requested (counted up to MaxJobs + 1)
   stylesUsed |-> {}]    \* style prompts of the image requests issued

\* The component after construction.
IdleState ==
  /\ text = <<>>
  /\ previewChunks = <<>>
  /\ startChunkIndex = 0
  /\ audioChunks = <<>>
  /\ generationState = [isGenerating |-> FALSE, progress |-> <<0, 1>>, totalChunks |-> 0,
                        currentChunkIndex |-> 0, error |-> None]
  /\ finalBlob = None
  /\ abortRef = FALSE
  /\ run = [r \in Runs |-> IdleRun]
  /\ obs = [r \in Runs |-> NoObs]
  /\ stops = 0
  /\ globalStylePrompt = None
  /\ imageCounts = [idx \in ChunkIndices |-> None]
  /\ imageJob = [j \in Jobs |-> IdleJob]
  /\ imageObs = NoImageObs
  /\ format = "wav"
  /\ mounted = TRUE

\* The page after loading: the encoder script has loaded or has not.
Init == IdleState /\ lamejs \in BOOLEAN /\ call = NoCall

\* The page after loading, with its encoder.
LoadedInit == Init /\ lamejs

Unsettled(r) == run[r].pc \in {"call", "backoff", "pacing"}
Settled(r) == run[r].pc \in {"done", "failed", "encoderFailed"}

\* The outcome of a call: the value it returns or the message of the Error it throws.
Return(v) == [threw |-> FALSE, value |-> v, message |-> ""]
Throw(message) == [threw |-> TRUE, value |-> None, message |-> message]

\* createMp3File (lines 111-142): throws when window.lamejs is missing, else
\* returns new Blob(mp3Data, { type: 'audio/mp3' }).
createMp3File(pcmData) ==
  IF ~lamejs THEN Throw("MP3 encoder library (lamejs) failed to load.")
  ELSE Return(Some([type |-> "audio/mp3", bytes |-> Mp3EncoderInput(Samples(pcmData))]))

\* generateBlobFromChunks (lines 308-320): null, a blob, or the throw of createMp3File.
generateBlobFromChunks(chunks, targetFormat) ==
  LET completedChunks == SelectSeq(chunks, IsReady) IN
  IF Len(completedChunks) = 0 THEN Return(None)
  ELSE LET combinedBuffer == concatenateAudioBuffers(
                               [k \in 1..Len(completedChunks) |-> completedChunks[k].data[1]])
       IN IF targetFormat = "wav" THEN Return(Some(createWavFile(combinedBuffer)))
          ELSE createMp3File(combinedBuffer)

\* useEffect on [format, audioChunks, generationState.isGenerating]
\* (lines 322-329), after a render in which blob was the committed finalBlob.
\* depsChanged: a dependency is not identical to its value at the previous
\* render (every setAudioChunks(prev => prev.map(...)) makes a new array).
\* The effect re-assembles the final blob; an Error thrown by an effect is not
\* caught by any error boundary, so React unmounts the component.
FinalBlobEffect(depsChanged, chunks, gen, fmt, blob) ==
  IF /\ depsChanged
     /\ ~gen.isGenerating
     /\ Len(chunks) > 0
     /\ \E k \in 1..Len(chunks) : chunks[k].status = "completed"
  THEN LET outcome == generateBlobFromChunks(chunks, fmt) IN
       IF outcome.threw
       THEN finalBlob' = blob /\ mounted' = FALSE
       ELSE finalBlob' = outcome.value /\ mounted' = mounted
  ELSE finalBlob' = blob /\ mounted' = mounted

\* setAudioChunks(prev => prev.map(c => c.id === i ? f(c) : c))
SetStatus(chunks, i, status) ==
  [k \in 1..Len(chunks) |->
     IF chunks[k].id = i THEN [chunks[k] EXCEPT !.status = status] ELSE chunks[k]]

SetCompleted(chunks, i, pcm) ==
  [k \in 1..Len(chunks) |->
     IF chunks[k].id = i THEN [chunks[k] EXCEPT !.status = "completed", !.data = Some(pcm)]
     ELSE chunks[k]]

\* ------------------------------------------------- handleGenerate: policy
RECURSIVE Pow(_, _)
Pow(b, e) == IF e = 0 THEN 1 ELSE b * Pow(b, e - 1)

RECURSIVE GCD(_, _)
GCD(a, b) == IF b = 0 THEN a ELSE GCD(b, a % b)

\* A rational number as a reduced fraction <<numerator, denominator>>.
Frac(n, d) == LET g == GCD(n, d) IN <<n \div g, d \div g>>

\* ((i - startChunkIndex) / totalToGenerate) * 100
Progress(i, start, totalToGenerate) == Frac((i - start) * 100, totalToGenerate)

\* Math.round(x / 1000) for x >= 0
RoundSeconds(ms) == (ms + 500) \div 1000

\* Variant: the retry loop gives up after the first failed attempt.
WhileCond_GiveUp(attempts, pcmData, abort) ==
  attempts < 1 /\ pcmData = None /\ ~abort

\* while (attempts < maxRetries && !pcmData && !abortRef.current)
WhileCond(attempts, pcmData, abort) ==
  attempts < maxRetries /\ pcmData = None /\ ~abort

\* Variant: the delay falls back after a failure that is not a rate limit.
Ratchet_Unlatched(isRateLimit, interChunkDelay) ==
  IF isRateLimit THEN RatchetedInterChunkDelay ELSE InitialInterChunkDelay

\* if (isRateLimit) interChunkDelay = 6000
Ratchet(isRateLimit, interChunkDelay) ==
  IF isRateLimit THEN RatchetedInterChunkDelay ELSE interChunkDelay

\* Variant: fail-fast applies to rate-limit failures too.
FailFast_AnyKind(isRateLimit, attempts) == attempts >= FailFastAttempts

\* Variant: the fail-fast comparison is off by one.
FailFast_OffByOne(isRateLimit, attempts) == ~isRateLimit /\ attempts > FailFastAttempts

\* if (!isRateLimit && attempts >= 3) throw
FailFast(isRateLimit, attempts) == ~isRateLimit /\ attempts >= FailFastAttempts

\* if (attempts >= maxRetries) throw
Exhausted(attempts) == attempts >= maxRetries

\* err?.message || "Unknown error"
ErrorMessage(message) == IF message = "" THEN "Unknown error" ELSE message

\* isRateLimit ? "Quota exceeded. Aborting." : errorMessage
FriendlyError(isRateLimit, errorMessage) ==
  IF isRateLimit THEN "Quota exceeded. Aborting." ELSE errorMessage

\* Variant: the rate-limit cooldown does not grow with the attempts.
RetryDelay_FlatCooldown(isRateLimit, attempts) ==
  IF isRateLimit THEN 10000 + 5000
  ELSE (2000 * Pow(3, attempts)) \div Pow(2, attempts)

\* Variant: the backoff doubles instead of growing by half.
RetryDelay_Doubling(isRateLimit, attempts) ==
  IF isRateLimit THEN 10000 + attempts * 5000
  ELSE 2000 * Pow(2, attempts)

\* let delay = 2000 * Math.pow(1.5, attempts); if (isRateLimit) delay = 10000 + attempts * 5000
\* (2000 * 1.5^attempts is an integer for the attempts that reach it, 1 and 2)
RetryDelay(isRateLimit, attempts) ==
  IF isRateLimit THEN 10000 + attempts * 5000
  ELSE (2000 * Pow(3, attempts)) \div Pow(2, attempts)

\* Variant: the chunk loop starts at the first chunk.
LoopStart_Zero(start) == 0

\* for (let i = startChunkIndex; ...; i++)
LoopStart(start) == start
NextIndex(i) == i + 1

\* attempts++
NextAttempt(attempts) == attempts + 1

\* Variant: the position is reported 0-based.
PartNumber_ZeroBased(i) == i

\* `Failed to generate part ${i + 1}. ...`
PartNumber(i) == i + 1

\* Variant: a pacing wait follows the last chunk too.
MoreChunks_Always(i, length) == i < length

\* if (i < textChunksToProcess.length - 1)
MoreChunks(i, length) == i < length - 1

\* ---------------------------------------------- handleGenerate: the blocks
\* A block transforms st = [loc, ob, gen, ac, fb, acSet]: the run's locals and
\* observations, generationState, audioChunks and finalBlob, and whether the
\* block has called setAudioChunks.

\* What is kept of a run's observations once it has returned.
Returned(ob) ==
  [NoObs EXCEPT !.cancelRequested = ob.cancelRequested,
                !.calledAfterStop = ob.calledAfterStop,
                !.returned = ob.returned]

\* Lines 577-584 for an Error that is not a failed part: error.message is shown.
CatchError(st, message) ==
  [st EXCEPT
     !.gen = [st.gen EXCEPT !.isGenerating = FALSE,
                            !.error = Some([kind |-> "error", n |-> 0, detail |-> message])],
     !.ob = Returned(st.ob),
     !.loc = [pc |-> "encoderFailed"] @@ NoLocals]

\* Variant: the invocation returns without clearing isGenerating.
IsGeneratingAfterLoop_Kept == TRUE

\* setGenerationState(prev => ({ ...prev, isGenerating: false, ... })) at lines 572
\* and 574.
IsGeneratingAfterLoop == FALSE

\* Lines 563-575: after the chunk loop; format is the one the invocation was
\* created with.
Settle(st, abort) ==
  IF ~abort /\ Len(st.loc.collectedBuffers) > 0
  THEN LET combinedBuffer == concatenateAudioBuffers(st.loc.collectedBuffers)
           blob == IF st.loc.format = "wav" THEN Return(Some(createWavFile(combinedBuffer)))
                   ELSE createMp3File(combinedBuffer)
       IN IF blob.threw THEN CatchError(st, blob.message)
          ELSE [st EXCEPT
                  !.fb = blob.value,
                  !.gen = [st.gen EXCEPT !.isGenerating = IsGeneratingAfterLoop,
                                         !.progress = <<100, 1>>],
                  !.loc = [pc |-> "done"] @@ NoLocals,
                  !.ob = Returned(st.ob)]
  ELSE [st EXCEPT
          !.gen = [st.gen EXCEPT !.isGenerating = IsGeneratingAfterLoop],
          !.loc = [pc |-> "done"] @@ NoLocals,
          !.ob = Returned(st.ob)]

\* Lines 577-584: the catch of handleGenerate, err = [part, detail] stands for
\* Error(`Failed to generate part ${part}. ${detail}`).
Catch(st, err) ==
  [st EXCEPT
     !.gen = [st.gen EXCEPT !.isGenerating = FALSE,
                            !.error = Some([kind |-> "failed", n |-> err.part,
                                            detail |-> err.detail])],
     !.ob = [Returned(st.ob) EXCEPT !.thrown = Some(err), !.failedChunk = st.loc.i,
                                    !.lastError = st.ob.lastError,
                                    !.nonRateLimitStreak = st.ob.nonRateLimitStreak],
     !.loc = [pc |-> "failed"] @@ NoLocals]

\* Line 495: await generateSpeechChunk(textChunksToProcess[i], voice, model)
Dispatch(st) ==
  [st EXCEPT
     !.loc = [st.loc EXCEPT !.pc = "call"],
     !.ob = [st.ob EXCEPT
               !.lastCall = st.loc.i,
               !.callsForChunk = IF st.ob.lastCall # st.loc.i THEN 1
                                 ELSE IF @ > maxRetries THEN @ ELSE @ + 1,
               !.nonRateLimitStreak = IF st.ob.lastCall = st.loc.i THEN @ ELSE 0,
               !.calledAfterStop = @ \/ st.ob.cancelRequested]]

\* Lines 538-561: after the retry loop of chunk i.
AfterWhile(st, abort) ==
  IF abort THEN Settle(st, abort)
  ELSE
    LET i == st.loc.i
        st1 == IF st.loc.pcmData # None
               THEN [st EXCEPT
                       !.loc = [st.loc EXCEPT
                                  !.collectedBuffers = Append(@, st.loc.pcmData[1])],
                       !.ac = SetCompleted(st.ac, i, st.loc.pcmData[1]),
                       !.acSet = TRUE]
               ELSE st
    IN IF MoreChunks(i, Len(st.loc.chunks))
       THEN [st1 EXCEPT
               !.gen = IF st.loc.interChunkDelay > PacingNoticeThreshold
                       THEN [st.gen EXCEPT
                               !.error = Some([kind |-> "pacing",
                                               n |-> st.loc.interChunkDelay \div 1000,
                                               detail |-> ""])]
                       ELSE st.gen,
               !.loc = [st1.loc EXCEPT !.pc = "pacing", !.delay = st.loc.interChunkDelay]]
       ELSE Settle(st1, abort)

\* Line 493: the head of the retry loop.
WhileTop(st, abort) ==
  IF WhileCond(st.loc.attempts, st.loc.pcmData, abort)
  THEN Dispatch(st)
  ELSE AfterWhile(st, abort)

\* Lines 478-493: the head of the chunk loop, for the run's current i.
BeginChunk(st, abort) ==
  LET i == st.loc.i IN
  IF i < Len(st.loc.chunks)
  THEN IF abort THEN Settle(st, abort)
       ELSE WhileTop(
              [st EXCEPT
                 !.gen = [st.gen EXCEPT
                            !.currentChunkIndex = PartNumber(i),
                            !.progress = Progress(i, st.loc.start,
                                                  Len(st.loc.chunks) - st.loc.start)],
                 !.ac = SetStatus(st.ac, i, "generating"),
                 !.acSet = TRUE,
                 !.loc = [st.loc EXCEPT !.pcmData = None, !.attempts = 0]],
              abort)
  ELSE Settle(st, abort)

\* Lines 498-535: the catch of one failed synthesis call.
OnCallError(st, isRateLimit, message) ==
  LET errorMessage == ErrorMessage(message)
      attempts == NextAttempt(st.loc.attempts)
      delay == RetryDelay(isRateLimit, attempts)
      st1 == [st EXCEPT
                !.loc = [st.loc EXCEPT
                           !.interChunkDelay = Ratchet(isRateLimit, @),
                           !.attempts = attempts],
                !.ob = [st.ob EXCEPT
                          !.rateLimitSeen = @ \/ isRateLimit,
                          !.lastFailure = IF isRateLimit THEN "rateLimit" ELSE "other",
                          !.nonRateLimitStreak =
                            IF isRateLimit THEN 0
                            ELSE IF @ > FailFastAttempts THEN @ ELSE @ + 1]]
      st2 == [st1 EXCEPT
                !.ob = [st1.ob EXCEPT
                          !.lastError = Some([isRateLimit |-> isRateLimit,
                                              message |-> message])]]
  IN IF FailFast(isRateLimit, attempts)
     THEN Catch(st2, [part |-> PartNumber(st.loc.i), detail |-> errorMessage])
     ELSE IF Exhausted(attempts)
     THEN Catch(st2, [part |-> PartNumber(st.loc.i),
                      detail |-> FriendlyError(isRateLimit, errorMessage)])
     ELSE [st1 EXCEPT
             !.gen = [st.gen EXCEPT
                        !.error = IF isRateLimit
                                  THEN Some([kind |-> "cooldown", n |-> delay \div 1000,
                                             detail |-> ""])
                                  ELSE Some([kind |-> "retrying", n |-> RoundSeconds(delay),
                                             detail |-> ""])],
             !.loc = [st1.loc EXCEPT !.pc = "backoff", !.delay = delay]]

\* ---------------------------------------------------------------- actions
\* The machine state seen by a block of run r.
Machine(r) ==
  [loc |-> run[r], ob |-> obs[r], gen |-> generationState, ac |-> audioChunks,
   fb |-> finalBlob, acSet |-> FALSE]

\* Commit the result of a block of run r (s: that result, computed once); the
\* final-blob effect runs afterwards.  The state updates of a block that runs
\* after the component was unmounted are dropped.
Commit(r, st) ==
  \E s \in {st} :
    /\ run' = [run EXCEPT ![r] = s.loc]
    /\ obs' = [q \in Runs |->
                IF q = r THEN s.ob
                ELSE IF run[r].pc = "idle" /\ Settled(q)
                THEN NoObs  \* a new invocation starts: forget the returned ones
                ELSE obs[q]]
    /\ IF mounted
       THEN /\ generationState' = s.gen
            /\ audioChunks' = s.ac
            /\ FinalBlobEffect(s.acSet \/ s.gen.isGenerating # generationState.isGenerating,
                               s.ac, s.gen, format, s.fb)
       ELSE UNCHANGED <<generationState, audioChunks, finalBlob, mounted>>

\* Variant: a text change keeps the selected start chunk.
StartChunkIndexOnTextChange_Kept == startChunkIndex

\* setStartChunkIndex(0) in the effect on [text] (line 276).
StartChunkIndexOnTextChange == 0

\* setText(t) and the effect on [text] (lines 275-279).
TextChanges(t) ==
  /\ mounted
  /\ t # text
  /\ text' = t
  /\ startChunkIndex' = StartChunkIndexOnTextChange
  /\ previewChunks' = <<>>
  /\ globalStylePrompt' = None
  /\ imageObs' = NoImageObs
  /\ UNCHANGED <<audioChunks, generationState, finalBlob, abortRef, run, obs, stops, call,
                 imageCounts, imageJob, format, lamejs, mounted>>

\* The textarea, disabled while generating: onChange calls onTextChange={setText}
\* (TextInput.tsx 50-53).
SetText(t) ==
  /\ ~generationState.isGenerating
  /\ TextChanges(t)

\* reader.onload of a file picked with Import (TextInput.tsx 13-23).  The button
\* is disabled while generating, but picking a file changes no state and the
\* read completes at any later time: also while an invocation is under way.
FileLoaded(t) == TextChanges(t)

\* textChunksToProcess.map((t, i) => ({id: i, text: t, status: ...}))
InitialAudioChunks(chunks, firstPending) ==
  [k \in 1..Len(chunks) |->
     [id |-> k - 1, text |-> chunks[k],
      status |-> IF k - 1 < firstPending THEN "completed" ELSE "pending",
      data |-> None,
      images |-> <<>>,                \* [] or undefined: read as c.images || []
      isGeneratingImages |-> FALSE]]  \* undefined: read for its truth value only

\* handlePreviewChunks (lines 281-295).
PreviewChunks ==
  /\ mounted
  /\ ~generationState.isGenerating
  /\ text # <<>>
  /\ LET chunks == createSmartChunks(text, DefaultMaxChars) IN
       /\ previewChunks' = chunks
       /\ startChunkIndex' = 0
       /\ audioChunks' = InitialAudioChunks(chunks, 0)
       /\ FinalBlobEffect(TRUE, InitialAudioChunks(chunks, 0), generationState, format,
                          finalBlob)
  /\ UNCHANGED <<text, generationState, abortRef, run, obs, stops, call, imageVars,
                 format, lamejs>>

\* onClick={() => !generationState.isGenerating && setStartChunkIndex(idx)} (line 832).
SelectStart(idx) ==
  /\ mounted
  /\ ~generationState.isGenerating
  /\ idx \in 0..(Len(previewChunks) - 1)
  /\ idx # startChunkIndex
  /\ startChunkIndex' = idx
  /\ UNCHANGED <<text, previewChunks, audioChunks, generationState, finalBlob,
                 abortRef, run, obs, stops, call, imageVars, format, lamejs, mounted>>

\* onFormatChange={setFormat} (line 682): the WAV and MP3 buttons, disabled while
\* generating; format is a dependency of the final-blob effect.
SetFormat(f) ==
  /\ mounted
  /\ ~generationState.isGenerating
  /\ f # format
  /\ format' = f
  /\ FinalBlobEffect(TRUE, audioChunks, generationState, f, finalBlob)
  /\ UNCHANGED <<text, previewChunks, startChunkIndex, audioChunks, generationState,
                 abortRef, run, obs, stops, call, imageVars, lamejs>>

\* handleGenerate up to its first await (lines 441-495).  The Generate button is
\* rendered when generationState.isGenerating is false (lines 763-774).
Generate(r) ==
  /\ mounted
  /\ ~generationState.isGenerating
  /\ text # <<>>
  /\ run[r].pc = "idle"
  /\ \A q \in Runs : q < r => run[q].pc # "idle"
  /\ LET textChunksToProcess ==
           IF Len(previewChunks) > 0 THEN previewChunks
           ELSE createSmartChunks(text, DefaultMaxChars)
         chunks0 ==
           IF Len(audioChunks) = 0 \/ Len(audioChunks) # Len(textChunksToProcess)
           THEN InitialAudioChunks(textChunksToProcess, startChunkIndex)
           ELSE audioChunks
         st0 == [loc |-> [pc |-> "idle", chunks |-> textChunksToProcess,
                          start |-> startChunkIndex, i |-> LoopStart(startChunkIndex),
                          attempts |-> 0, pcmData |-> None,
                          interChunkDelay |-> InitialInterChunkDelay,
                          collectedBuffers |-> <<>>, delay |-> 0, format |-> format],
                 ob |-> NoObs,
                 gen |-> [isGenerating |-> TRUE, progress |-> <<0, 1>>,
                          totalChunks |-> Len(textChunksToProcess),
                          currentChunkIndex |-> 0, error |-> None],
                 ac |-> chunks0,
                 fb |-> None,
                 acSet |-> (Len(audioChunks) = 0
                            \/ Len(audioChunks) # Len(textChunksToProcess))]
     IN Commit(r, BeginChunk(st0, FALSE))
  /\ abortRef' = FALSE
  /\ UNCHANGED <<text, previewChunks, startChunkIndex, stops, call, imageVars,
                 format, lamejs>>

\* handleStop (lines 587-590).  The Stop button is rendered while isGenerating.
Stop ==
  /\ mounted
  /\ generationState.isGenerating
  /\ stops < MaxStops
  /\ stops' = stops + 1
  /\ abortRef' = TRUE
  /\ generationState' = [generationState EXCEPT !.isGenerating = FALSE]
  /\ FinalBlobEffect(TRUE, audioChunks, [generationState EXCEPT !.isGenerating = FALSE],
                     format, finalBlob)
  /\ obs' = [r \in Runs |->
              IF Unsettled(r) /\ ~obs[r].cancelRequested
              THEN [obs[r] EXCEPT
                      !.cancelRequested = TRUE,
                      !.readyAtStop = {audioChunks[k].id : k \in
                                         {j \in 1..Len(audioChunks) : IsReady(audioChunks[j])}}]
              ELSE obs[r]]
  /\ UNCHANGED <<text, previewChunks, startChunkIndex, audioChunks, run, call, imageVars,
                 format, lamejs>>

\* The pending generateSpeechChunk call of run r resolves with PCM (lines 495-497).
CallSucceeds(r, pcm) ==
  /\ run[r].pc = "call"
  /\ LET st == Machine(r) IN
       Commit(r, WhileTop([st EXCEPT !.loc = [st.loc EXCEPT !.pcmData = Some(pcm)],
                                     !.gen = [st.gen EXCEPT !.error = None],
                                     !.ob = [st.ob EXCEPT !.lastFailure = "none",
                                                          !.returned = Append(@, pcm)]],
                          abortRef))
  /\ UNCHANGED <<text, previewChunks, startChunkIndex, abortRef, stops, call, imageVars,
                 format, lamejs>>

\* The pending generateSpeechChunk call of run r rejects (lines 498-534).  At most
\* `limit` failures are injected into the attempts on one chunk.
CallFails(r, isRateLimit, message, limit) ==
  /\ run[r].pc = "call"
  /\ run[r].attempts < limit
  /\ Commit(r, OnCallError(Machine(r), isRateLimit, message))
  /\ UNCHANGED <<text, previewChunks, startChunkIndex, abortRef, stops, call, imageVars,
                 format, lamejs>>

\* The retry backoff of run r elapses (line 534, then the loop head at 493).
BackoffElapses(r) ==
  /\ run[r].pc = "backoff"
  /\ Commit(r, WhileTop(Machine(r), abortRef))
  /\ UNCHANGED <<text, previewChunks, startChunkIndex, abortRef, stops, call, imageVars,
                 format, lamejs>>

\* The pacing wait of run r elapses (lines 556-560, then i++ and the loop head).
PacingElapses(r) ==
  /\ run[r].pc = "pacing"
  /\ LET st == Machine(r) IN
       Commit(r, BeginChunk(
                   [st EXCEPT
                      !.gen = IF st.loc.interChunkDelay > PacingNoticeThreshold
                              THEN [st.gen EXCEPT !.error = None] ELSE st.gen,
                      !.loc = [st.loc EXCEPT !.i = NextIndex(@)]],
                   abortRef))
  /\ UNCHANGED <<text, previewChunks, startChunkIndex, abortRef, stops, call, imageVars,
                 format, lamejs>>

\* A step of run r: one of its pending awaits returns.
RunStep(r) ==
  \/ \E pcm \in PcmVals : CallSucceeds(r, pcm)
  \/ \E isRateLimit \in BOOLEAN, message \in ErrMsgs :
        CallFails(r, isRateLimit, message, maxRetries)
  \/ BackoffElapses(r)
  \/ PacingElapses(r)

\* --------------------------------------------------- handleGenerateImages
\* The fallback of generateStyleDescription.
DefaultStyle == "Digital art, high resolution, cinematic lighting"
\* What generateStyleDescription can return: the answer of the model or the fallback.
StyleDescriptions == {"Ink drawing, muted palette", DefaultStyle}
\* What generateNanobanaImage can return: a data URL.
ImageUrls == {"data:image/png;base64,AA=="}

\* imageCounts[chunkIndex] || 1
ImageCount(chunkIndex) ==
  IF imageCounts[chunkIndex] = None THEN 1 ELSE imageCounts[chunkIndex][1]

\* prev.map(c => c.id === chunkIndex ? { ...c, isGeneratingImages: true } : c)
SetGeneratingImages(chunks, chunkIndex) ==
  [k \in 1..Len(chunks) |->
     IF chunks[k].id = chunkIndex THEN [chunks[k] EXCEPT !.isGeneratingImages = TRUE]
     ELSE chunks[k]]

\* Variant: a failed batch discards the images the chunk had.
ClearGeneratingImages_DropImages(chunks, chunkIndex) ==
  [k \in 1..Len(chunks) |->
     IF chunks[k].id = chunkIndex
     THEN [chunks[k] EXCEPT !.isGeneratingImages = FALSE, !.images = <<>>]
     ELSE chunks[k]]

\* prev.map(c => c.id === chunkIndex ? { ...c, isGeneratingImages: false } : c)
ClearGeneratingImages(chunks, chunkIndex) ==
  [k \in 1..Len(chunks) |->
     IF chunks[k].id = chunkIndex THEN [chunks[k] EXCEPT !.isGeneratingImages = FALSE]
     ELSE chunks[k]]

\* What Date.now() can return.  The wall clock is read once per image, and
\* nothing keeps two readings apart, in one batch or in two.
Times == 1..MaxTime

\* The readings of Date.now() of a batch of up to MaxImages images.
TimeStamps == UNION {[1..n -> Times] : n \in 1..MaxImages}

\* results.map((url, idx) => ({ id: `${Date.now()}-${idx}`, data: url }));
\* now[k] is the reading of Date.now() for image k.
NewImages(now, results) ==
  [k \in 1..Len(results) |-> [id |-> <<now[k], k - 1>>, data |-> results[k][1]]]

\* Lines 418-427: the images of the batch are appended to the chunk.
AppendImages(chunks, chunkIndex, newImages) ==
  [k \in 1..Len(chunks) |->
     IF chunks[k].id = chunkIndex
     THEN [chunks[k] EXCEPT !.isGeneratingImages = FALSE, !.images = @ \o newImages]
     ELSE chunks[k]]

\* `${stylePrompt}. Scene description: ${chunkText}`
FullPrompt(stylePrompt, chunkText) == [style |-> stylePrompt, scene |-> chunkText]

\* Promise.all(promises) resolves once every promise has resolved.
AllResolved(results) == \A k \in 1..Len(results) : results[k] # None

\* Lines 405-410: the invocation issues its `count` image requests.
RequestImages(job, stylePrompt) ==
  [job EXCEPT !.pc = "images",
              !.fullPrompt = Some(FullPrompt(stylePrompt, job.chunkText)),
              !.results = [k \in 1..job.count |-> None]]

\* setAudioChunks by an invocation of handleGenerateImages; the final-blob
\* effect runs afterwards.
SetAudioChunks(chunks) ==
  IF mounted
  THEN /\ audioChunks' = chunks
       /\ FinalBlobEffect(TRUE, chunks, generationState, format, finalBlob)
  ELSE UNCHANGED <<audioChunks, finalBlob, mounted>>

\* handleImageCountChange (line 436), from the select of a rendered chunk.
SetImageCount(idx, val) ==
  /\ mounted
  /\ idx < Len(previewChunks)
  /\ imageCounts[idx] # Some(val)
  /\ imageCounts' = [imageCounts EXCEPT ![idx] = Some(val)]
  /\ UNCHANGED <<text, previewChunks, startChunkIndex, audioChunks, generationState,
                 finalBlob, abortRef, run, obs, stops, call, globalStylePrompt,
                 imageJob, imageObs, format, lamejs, mounted>>

\* handleGenerateImages up to its first await (lines 389-410).  The button of
\* chunk idx is rendered for previewChunks[idx] and disabled while
\* audioChunks[idx]?.isGeneratingImages (lines 866-868).
GenerateImages(j, chunkIndex) ==
  /\ mounted
  /\ imageJob[j].pc = "idle"
  /\ \A q \in Jobs : q < j => imageJob[q].pc # "idle"
  /\ chunkIndex < Len(previewChunks)
  /\ ~(chunkIndex < Len(audioChunks) /\ audioChunks[chunkIndex + 1].isGeneratingImages)
  /\ previewChunks[chunkIndex + 1] # <<>>
  /\ SetAudioChunks(SetGeneratingImages(audioChunks, chunkIndex))
  /\ LET job == [IdleJob EXCEPT !.chunkIndex = chunkIndex,
                                !.count = ImageCount(chunkIndex),
                                !.chunkText = previewChunks[chunkIndex + 1]]
     IN IF globalStylePrompt = None
        THEN /\ imageJob' = [imageJob EXCEPT ![j] = [job EXCEPT !.pc = "style"]]
             /\ imageObs' = [imageObs EXCEPT
                               !.styleRequests = IF @ > MaxJobs THEN @ ELSE @ + 1]
        ELSE /\ imageJob' = [imageJob EXCEPT
                               ![j] = RequestImages(job, globalStylePrompt[1])]
             /\ imageObs' = [imageObs EXCEPT
                               !.stylesUsed = @ \cup {globalStylePrompt[1]}]
  /\ UNCHANGED <<text, previewChunks, startChunkIndex, generationState, abortRef, run,
                 obs, stops, call, globalStylePrompt, imageCounts, format, lamejs>>

\* The pending generateStyleDescription call of invocation j returns (lines
\* 401-410); the service catches its own failures and returns the fallback.
StyleDescriptionReturns(j, stylePrompt) ==
  /\ imageJob[j].pc = "style"
  /\ globalStylePrompt' = IF mounted THEN Some(stylePrompt) ELSE globalStylePrompt
  /\ imageJob' = [imageJob EXCEPT ![j] = RequestImages(@, stylePrompt)]
  /\ imageObs' = [imageObs EXCEPT !.stylesUsed = @ \cup {stylePrompt}]
  /\ UNCHANGED <<text, previewChunks, startChunkIndex, audioChunks, generationState,
                 finalBlob, abortRef, run, obs, stops, call, imageCounts,
                 format, lamejs, mounted>>

\* Request k of invocation j resolves; when it is the last one, Promise.all
\* resolves and the images are appended (lines 410-427), their ids made of the
\* readings `now` of Date.now().
ImageCallResolves(j, k, url, now) ==
  /\ imageJob[j].pc = "images"
  /\ k \in 1..imageJob[j].count
  /\ imageJob[j].results[k] = None
  /\ Len(now) = imageJob[j].count
  /\ LET results == [imageJob[j].results EXCEPT ![k] = Some(url)] IN
       IF AllResolved(results)
       THEN /\ SetAudioChunks(AppendImages(audioChunks, imageJob[j].chunkIndex,
                                           NewImages(now, results)))
            /\ imageJob' = [imageJob EXCEPT ![j] = [IdleJob EXCEPT !.pc = "done"]]
       ELSE /\ imageJob' = [imageJob EXCEPT ![j] = [@ EXCEPT !.results = results]]
            /\ UNCHANGED <<audioChunks, finalBlob, mounted>>
  /\ UNCHANGED <<text, previewChunks, startChunkIndex, generationState, abortRef, run,
                 obs, stops, call, globalStylePrompt, imageCounts, imageObs,
                 format, lamejs>>

\* Request k of invocation j rejects: Promise.all rejects at once (lines 429-433).
ImageCallRejects(j, k) ==
  /\ imageJob[j].pc = "images"
  /\ k \in 1..imageJob[j].count
  /\ imageJob[j].results[k] = None
  /\ SetAudioChunks(ClearGeneratingImages(audioChunks, imageJob[j].chunkIndex))
  /\ imageJob' = [imageJob EXCEPT ![j] = [IdleJob EXCEPT !.pc = "failed"]]
  /\ UNCHANGED <<text, previewChunks, startChunkIndex, generationState, abortRef, run,
                 obs, stops, call, globalStylePrompt, imageCounts, imageObs,
                 format, lamejs>>

\* type AudioFormat = 'wav' | 'mp3'
Formats == {"wav", "mp3"}

Next ==
  \/ \E t \in Texts : SetText(t)
  \/ PreviewChunks
  \/ \E idx \in 0..(MaxSentences - 1) : SelectStart(idx)
  \/ \E r \in Runs : Generate(r)
  \/ Stop
  \/ \E r \in Runs, pcm \in PcmVals : CallSucceeds(r, pcm)
  \/ \E r \in Runs, isRateLimit \in BOOLEAN, message \in SpecErrMsgs :
        CallFails(r, isRateLimit, message, MaxFailures)
  \/ \E r \in Runs : BackoffElapses(r)
  \/ \E r \in Runs : PacingElapses(r)

\* Any number of overlapping invocations, a bounded number of failures per chunk;
\* the format stays WAV and the text is edited in the textarea.
Spec == LoadedInit /\ [][Next]_vars

\* Generate is pressed only when every earlier invocation has returned.
GenerateAlone(r) ==
  /\ \A q \in Runs : ~Unsettled(q)
  /\ Generate(r)

DeepNext ==
  \/ \E t \in Texts : SetText(t)
  \/ \E t \in Texts : FileLoaded(t)
  \/ \E f \in Formats : SetFormat(f)
  \/ PreviewChunks
  \/ \E idx \in 0..(MaxSentences - 1) : SelectStart(idx)
  \/ \E r \in 1..DeepRuns : GenerateAlone(r)
  \/ Stop
  \/ \E r \in 1..DeepRuns : RunStep(r)

\* Invocations that do not overlap, every pattern of failures the code admits,
\* in either format, on a page whose encoder has loaded.
DeepSpec == LoadedInit /\ [][DeepNext]_vars

\* The same on any page, with or without its encoder; every synthesis call and
\* every timed wait eventually returns.
\* (invocations do not overlap here: at most one of them has a pending await)
FairDeepSpec ==
  Init /\ [][DeepNext]_vars /\ WF_vars(\E r \in 1..DeepRuns : RunStep(r))

\* PCM buffers of different lengths and contents, to tell the chunks apart.
CleanPcmVals == {[k \in 1..p |-> p] : p \in 1..(MaxPcm + 1)}

CleanNext ==
  \/ \E t \in Texts : SetText(t)
  \/ \E t \in Texts : FileLoaded(t)
  \/ \E f \in Formats : SetFormat(f)
  \/ PreviewChunks
  \/ \E r \in Runs : GenerateAlone(r)
  \/ \E r \in Runs, pcm \in CleanPcmVals : CallSucceeds(r, pcm)
  \/ \E r \in Runs : PacingElapses(r)

\* Runs from startIndex 0, one after the other, without failures and without Stop.
CleanSpec == Init /\ [][CleanNext]_vars

\* A manuscript of MaxSentences + 1 long sentences: one more chunk than Texts give.
ResumeTexts == {[k \in 1..(MaxSentences + 1) |-> LongSentence]}

ResumeNext ==
  \/ \E t \in ResumeTexts : SetText(t)
  \/ \E f \in Formats : SetFormat(f)
  \/ PreviewChunks
  \/ \E idx \in 0..MaxSentences : SelectStart(idx)
  \/ \E r \in Runs : GenerateAlone(r)
  \/ Stop
  \/ \E r \in Runs, pcm \in CleanPcmVals : CallSucceeds(r, pcm)
  \/ \E r \in Runs : PacingElapses(r)

\* Runs one after the other over a previewed manuscript, stopped and resumed at
\* a selected start chunk, without failed calls.
ResumeSpec == Init /\ [][ResumeNext]_vars

ImageNext ==
  \/ \E t \in Texts : SetText(t)
  \/ PreviewChunks
  \/ \E idx \in ChunkIndices, val \in 1..MaxImages : SetImageCount(idx, val)
  \/ \E j \in Jobs, chunkIndex \in ChunkIndices : GenerateImages(j, chunkIndex)
  \/ \E j \in Jobs, stylePrompt \in StyleDescriptions :
        StyleDescriptionReturns(j, stylePrompt)
  \/ \E j \in Jobs, k \in 1..MaxImages, url \in ImageUrls, now \in TimeStamps :
        ImageCallResolves(j, k, url, now)
  \/ \E j \in Jobs, k \in 1..MaxImages : ImageCallRejects(j, k)

\* Illustrations requested while the manuscript is edited and previewed.
ImageSpec == LoadedInit /\ [][ImageNext]_vars

\* --------------------------------------------------- the helpers on their own
\* All sequences over S of length 0..n.
SeqsUpTo(S, n) == UNION {[1..m -> S] : m \in 0..n}

\* The characters of the texts: 'a', '.', ' ' and the line feed.
Chars == {97, 46, 32, 10}
ByteVals == {0, 255}
Buffers == SeqsUpTo(ByteVals, MaxBufLen)
\* Buffers whose length needs more than one byte of the header fields.
LongBuffers == {[k \in 1..n |-> 0] : n \in {220, 300}}
\* Buffers of even and odd length, holding positive and negative samples.
Mp3Buffers == SeqsUpTo(ByteVals, MaxBufLen + 2)

PureCalls ==
  {[fn |-> "createSmartChunks", args |-> <<str, maxChars>>, result |-> None] :
     str \in SeqsUpTo(Chars, MaxTextLen), maxChars \in 1..MaxBudget}
  \cup {[fn |-> "concatenateAudioBuffers", args |-> <<buffers>>, result |-> None] :
          buffers \in SeqsUpTo(Buffers, MaxBuffers)}
  \cup {[fn |-> "createWavFile", args |-> <<pcmData>>, result |-> None] :
          pcmData \in Buffers \cup LongBuffers}
  \cup {[fn |-> "createMp3File", args |-> <<pcmData>>, result |-> None] :
          pcmData \in Mp3Buffers}

PureInit ==
  /\ IdleState
  /\ call \in PureCalls
  /\ lamejs \in (IF call.fn = "createMp3File" THEN BOOLEAN ELSE {TRUE})

Apply(fn, result) ==
  /\ call.fn = fn
  /\ call.result = None
  /\ call' = [call EXCEPT !.result = Some(result)]
  /\ UNCHANGED <<text, previewChunks, startChunkIndex, audioChunks, generationState,
                 finalBlob, abortRef, run, obs, stops, imageVars, format, lamejs, mounted>>

ApplyCreateSmartChunks ==
  Apply("createSmartChunks", createSmartChunksOfString(call.args[1], call.args[2]))

ApplyConcatenateAudioBuffers ==
  Apply("concatenateAudioBuffers", concatenateAudioBuffers(call.args[1]))

ApplyCreateWavFile ==
  Apply("createWavFile", createWavFile(call.args[1]))

ApplyCreateMp3File ==
  Apply("createMp3File", createMp3File(call.args[1]))

PureNext ==
  \/ ApplyCreateSmartChunks
  \/ ApplyConcatenateAudioBuffers
  \/ ApplyCreateWavFile
  \/ ApplyCreateMp3File

\* One evaluation of a pure helper on inputs drawn from bounded sets.
PureSpec == PureInit /\ [][PureNext]_vars

\* ----------------------------------------------------------------- claims
InFlight == {r \in Runs : run[r].pc = "call"}

\* Run r dispatches a synthesis call in this step.
Dispatches(r) == run'[r].pc = "call" /\ run[r].pc # "call"

\* C1: at every moment at most one speech-synthesis request is in flight, under
\* every interleaving of Generate, Stop and the completion of synthesis calls.
C1_AtMostOneRequestInFlight == Cardinality(InFlight) <= 1

\* C2: within one run the chunk indices for which synthesis is invoked are
\* non-decreasing and begin at startIndex; a call for chunk i+1 is made only
\* after chunk i completed successfully (its PCM was collected).
C2_DispatchOrder ==
  [][\A r \in Runs : Dispatches(r) =>
       LET prev == obs[r].lastCall
           j == obs'[r].lastCall
       IN IF run[r].pc = "idle"
          THEN j = startChunkIndex
          ELSE /\ j >= prev
               /\ j > prev =>
                    /\ j = prev + 1
                    /\ run[r].pcmData # None
                    /\ Len(run'[r].collectedBuffers) = j - run'[r].start]_vars

\* C2 witness: a run retries a chunk that follows its first chunk.
C2_Witness ==
  \E r \in Runs : run[r].pc = "call" /\ run[r].i > run[r].start /\ run[r].attempts > 0

\* C3: a run started with startIndex = k > 0 never invokes synthesis for a chunk
\* index below k, whatever the failures, retries and cancellation.
C3_ResumeSkipsEarlierChunks ==
  \A r \in Runs : obs[r].lastCall # -1 => obs[r].lastCall >= run[r].start

\* C3 witness: a run resumed at an index above 0 is retrying after a failure.
C3_Witness ==
  \E r \in Runs : run[r].start > 0 /\ run[r].pc = "call" /\ run[r].attempts > 0

\* C4: once cancellation has been requested for a run, that run dispatches no
\* further synthesis call, neither a retry nor a call for a later chunk.
C4_NoCallAfterStop == \A r \in Runs : ~obs[r].calledAfterStop

\* C5: cancellation leaves completed work untouched: Stop changes no chunk and
\* assembles the partial artifact from the completed chunks, and no later step
\* of the cancelled run changes a chunk that was completed with PCM at Stop.
C5_CancelKeepsCompleted ==
  [][/\ stops' # stops =>
          /\ audioChunks' = audioChunks
          /\ (\E k \in 1..Len(audioChunks) : IsReady(audioChunks[k]))
               => finalBlob' = generateBlobFromChunks(audioChunks, format).value
     /\ \A r \in Runs :
          (obs[r].cancelRequested /\ Unsettled(r) /\ run'[r] # run[r]) =>
            \A k \in 1..Len(audioChunks) :
              (audioChunks[k].id \in obs[r].readyAtStop /\ IsReady(audioChunks[k]))
                => (k <= Len(audioChunks') /\ audioChunks'[k] = audioChunks[k])]_vars

\* C6: synthesis is invoked at most 15 times per chunk of a run, and the attempt
\* counter of a chunk counts that chunk's failed calls only (it starts at 0).
C6_AttemptBudget ==
  \A r \in Runs :
    /\ obs[r].callsForChunk <= 15
    /\ run[r].pc = "call" => run[r].attempts = obs[r].callsForChunk - 1

\* C6 witness: the 15th call for a chunk that is not the run's first chunk.
C6_Witness ==
  \E r \in Runs : obs[r].callsForChunk = 15 /\ run[r].i > run[r].start

\* C7: three consecutive non-rate-limit failures on one chunk end the run: no
\* fourth attempt on the chunk and no later chunk.
C7_FailFast ==
  \A r \in Runs : obs[r].nonRateLimitStreak >= 3 => run[r].pc = "failed"

\* C7 witness: a run failed on its third consecutive non-rate-limit failure.
C7_Witness ==
  \E r \in Runs : obs[r].nonRateLimitStreak = 3 /\ run[r].pc = "failed"

\* C8: interChunkDelay is 2000 when a run starts, never decreases during the
\* run, is 6000 from the first rate-limit failure on, and every pacing wait
\* lasts the current interChunkDelay.
C8_Ratchet ==
  /\ [](\A r \in Runs : Unsettled(r) =>
          /\ run[r].interChunkDelay = IF obs[r].rateLimitSeen THEN 6000 ELSE 2000
          /\ run[r].pc = "pacing" => run[r].delay = run[r].interChunkDelay)
  /\ [][\A r \in Runs : (Unsettled(r) /\ run'[r].pc \in {"call", "backoff", "pacing"})
           => run'[r].interChunkDelay >= run[r].interChunkDelay]_vars

\* C8 witness: a pacing wait of 6000 ms after a rate-limit failure.
C8_Witness ==
  \E r \in Runs : run[r].pc = "pacing" /\ obs[r].rateLimitSeen /\ run[r].delay = 6000

\* The error text of a failed call is contained in the surfaced detail.
ContainsText(detail, message) == message = "" \/ detail = message

\* Run r fails terminally in this step.
FailsNow(r) == run[r].pc # "failed" /\ run'[r].pc = "failed"

\* The step in which run r fails surfaces the failing chunk's 1-based position
\* and a detail that passes the given test; a failed run stays failed.
Surfaced(r, DetailOk(_, _)) ==
  /\ FailsNow(r) =>
       LET err == obs'[r].thrown[1]
           last == obs'[r].lastError[1]
       IN /\ obs'[r].failedChunk = run[r].i
          /\ err.part = run[r].i + 1
          /\ DetailOk(err.detail, last)
          /\ ~generationState'.isGenerating
          /\ generationState'.error =
               Some([kind |-> "failed", n |-> run[r].i + 1, detail |-> err.detail])
  /\ run[r].pc = "failed" => run'[r].pc = "failed"

C9_AnyFailure(detail, last) == ContainsText(detail, last.message)

C9_ByKind(detail, last) ==
  IF last.isRateLimit THEN detail = "Quota exceeded. Aborting."
  ELSE ContainsText(detail, last.message)

\* C9 as claimed: a terminal failure surfaces the failing chunk's 1-based
\* position and the error text of the last failed call, for rate-limit and
\* non-rate-limit failures alike, and the run dispatches nothing afterwards.
C9_LastErrorTextAlways == [][\A r \in Runs : Surfaced(r, C9_AnyFailure)]_vars

\* C9 amended: a terminal failure surfaces the failing chunk's 1-based position
\* and, after a non-rate-limit failure, the error text of the last failed call;
\* after a rate-limit failure (budget exhausted) the fixed text
\* "Quota exceeded. Aborting."; the run dispatches nothing afterwards.
C9_LastErrorTextUnlessRateLimit == [][\A r \in Runs : Surfaced(r, C9_ByKind)]_vars

\* C9 witness: the budget of the second chunk is exhausted by a rate-limit failure.
C9_Witness ==
  \E r \in Runs :
    /\ run[r].pc = "failed" /\ obs[r].thrown # None
    /\ obs[r].lastError[1].isRateLimit /\ obs[r].lastError[1].message = "boom"
    /\ obs[r].failedChunk = 1

\* C10: every run eventually settles (isGenerating false, no call or wait of
\* the run pending), provided every call and every timed wait returns.
C10_EventuallySettles ==
  \A r \in 1..DeepRuns :
    Unsettled(r) ~> (Settled(r) /\ ~generationState.isGenerating)

\* C10 witness: a run settled after Stop was pressed for it.
C10_Witness ==
  \E r \in Runs : run[r].pc = "done" /\ obs[r].cancelRequested

\* The pending call of run r fails in this step.
CallFailsNow(r) == run[r].pc = "call" /\ run'[r].pc \in {"backoff", "failed"}

\* The call that fails in this step fails with a rate limit.
RateLimitNow(r) ==
  /\ CallFailsNow(r)
  /\ IF run'[r].pc = "failed" THEN obs'[r].lastError[1].isRateLimit
     ELSE obs'[r].lastFailure = "rateLimit"

\* C11: a rate-limit failure is not fatal while the attempt budget is not
\* exhausted: after the a-th failed attempt on a chunk, a < 15, being a rate
\* limit, the run waits, and unless cancellation intervenes the wait is followed
\* by another attempt on the same chunk.
C11_RateLimitRetried ==
  [][\A r \in Runs :
       /\ (RateLimitNow(r) /\ run[r].attempts + 1 < 15)
            => (run'[r].pc = "backoff" /\ run'[r].i = run[r].i
                  /\ run'[r].attempts = run[r].attempts + 1)
       /\ (run[r].pc = "backoff" /\ run'[r] # run[r]
              /\ obs[r].lastFailure = "rateLimit" /\ ~abortRef)
            => (run'[r].pc = "call" /\ run'[r].i = run[r].i
                  /\ obs'[r].lastCall = run[r].i
                  /\ obs'[r].callsForChunk = obs[r].callsForChunk + 1)]_vars

\* C11 witness: the attempt that follows the 14th failure, a rate limit.
C11_Witness ==
  \E r \in Runs :
    run[r].pc = "call" /\ run[r].attempts = 14 /\ obs[r].lastFailure = "rateLimit"

\* C12: after a rate-limit failure that is the a-th failed attempt on the chunk,
\* 1 <= a <= 14, the wait is 10000 + a * 5000 ms, and it is longer than the wait
\* after the previous rate-limit failure on the same chunk.
C12_RateLimitDelay ==
  /\ [](\A r \in Runs :
          (run[r].pc = "backoff" /\ obs[r].lastFailure = "rateLimit") =>
            /\ run[r].attempts \in 1..14
            /\ run[r].delay = 10000 + run[r].attempts * 5000)
  /\ [][\A r \in Runs :
          (CallFailsNow(r) /\ run'[r].pc = "backoff"
             /\ obs[r].lastFailure = "rateLimit" /\ obs'[r].lastFailure = "rateLimit")
            => run'[r].delay > run[r].delay]_vars

\* C12 witness: the wait after the 14th failed attempt, a rate limit.
C12_Witness ==
  \E r \in Runs :
    /\ run[r].pc = "backoff" /\ obs[r].lastFailure = "rateLimit"
    /\ run[r].attempts = 14 /\ run[r].delay = 80000

\* C13: after a non-rate-limit failure that does not end the run and is the
\* a-th failed attempt on the chunk, the wait is 2000 * 1.5^a ms, and it is
\* 3000 ms or 4500 ms.
C13_BackoffDelay ==
  \A r \in Runs :
    (run[r].pc = "backoff" /\ obs[r].lastFailure = "other") =>
      /\ run[r].attempts \in 1..2
      /\ run[r].delay \in {3000, 4500}
      /\ run[r].delay * Pow(2, run[r].attempts) = 2000 * Pow(3, run[r].attempts)

\* C13 witness: the wait of 4500 ms after a second failure.
C13_Witness ==
  \E r \in Runs :
    run[r].pc = "backoff" /\ obs[r].lastFailure = "other" /\ run[r].delay = 4500

\* C14: when a chunk that is not the last one succeeds (and the run is not
\* cancelled) the run waits the current interChunkDelay, whatever backoff was
\* spent on the chunk, and that single wait is followed by the dispatch of the
\* next chunk; a later chunk is dispatched only out of that wait; the success
\* of the last chunk ends the run without a wait.
C14_PacingWait ==
  [][\A r \in Runs :
       /\ (run[r].pc = "call" /\ run'[r] # run[r] /\ ~CallFailsNow(r) /\ ~abortRef) =>
            IF run[r].i < Len(run[r].chunks) - 1
            THEN /\ run'[r].pc = "pacing"
                 /\ run'[r].delay = run[r].interChunkDelay
                 /\ run'[r].i = run[r].i
            ELSE run'[r].pc \in {"done", "encoderFailed"}
       /\ (run[r].pc = "pacing" /\ run'[r] # run[r] /\ ~abortRef) =>
            (run'[r].pc = "call" /\ run'[r].i = run[r].i + 1)
       /\ (Dispatches(r) /\ run[r].pc # "idle" /\ obs'[r].lastCall # obs[r].lastCall) =>
            run[r].pc = "pacing"]_vars

\* C14 witness: a pacing wait after a chunk that needed a retry.
C14_Witness ==
  \E r \in Runs :
    run[r].pc = "pacing" /\ run[r].attempts > 0 /\ run[r].pcmData # None

\* The bytes of a sequence of buffers, one buffer after the other.
RECURSIVE Flatten(_)
Flatten(buffers) == IF buffers = <<>> THEN <<>> ELSE Head(buffers) \o Flatten(Tail(buffers))

\* The unsigned 32-bit and 16-bit little-endian numbers at a 0-based offset.
ReadUint32LE(bytes, offset) ==
  bytes[offset + 1] + 256 * bytes[offset + 2] + 65536 * bytes[offset + 3]
    + 16777216 * bytes[offset + 4]
ReadUint16LE(bytes, offset) == bytes[offset + 1] + 256 * bytes[offset + 2]

\* Three chunks of 100 zero bytes assembled into a WAV file.
WavOfThreeChunks ==
  LET pcm == [k \in 1..100 |-> 0] IN
  createWavFile(concatenateAudioBuffers(<<pcm, pcm, pcm>>)).bytes

\* C15: when a run in the WAV format from startIndex 0 ends without failures
\* and cancellation, the final artifact is a WAV file: a 44-byte header followed
\* by the PCM the calls returned for chunks 0..n-1 in index order; its size is
\* 44 + the sum of the PCM lengths, Subchunk2Size is that sum; 3 chunks of 100
\* bytes give 344 bytes and Subchunk2Size 300.
C15_FinalWav ==
  /\ [][\A r \in Runs :
         (Unsettled(r) /\ run'[r].pc = "done" /\ obs'[r].returned # <<>>
          /\ run[r].format = "wav") =>
           LET pcm == Flatten(obs'[r].returned) IN
           /\ Len(obs'[r].returned) = generationState'.totalChunks
           /\ finalBlob' # None
           /\ finalBlob'[1].type = "audio/wav"
           /\ Len(finalBlob'[1].bytes) = 44 + Len(pcm)
           /\ ReadUint32LE(finalBlob'[1].bytes, 40) = Len(pcm)
           /\ SubSeq(finalBlob'[1].bytes, 45, 44 + Len(pcm)) = pcm]_vars
  /\ Len(WavOfThreeChunks) = 344
  /\ ReadUint32LE(WavOfThreeChunks, 40) = 300

\* C15 witness: a finished run of two chunks whose PCM buffers differ.
C15_Witness ==
  \E r \in Runs :
    /\ run[r].pc = "done" /\ Len(obs[r].returned) = 2
    /\ obs[r].returned[1] # obs[r].returned[2]
    /\ finalBlob # None /\ finalBlob[1].type = "audio/wav"
    /\ Len(finalBlob[1].bytes) = 44 + Len(Flatten(obs[r].returned))

\* A pure helper has been evaluated.
Evaluated(fn) == call.fn = fn /\ call.result # None

\* The strings joined by single spaces.
RECURSIVE JoinWithSpaces(_)
JoinWithSpaces(strs) ==
  IF strs = <<>> THEN <<>>
  ELSE IF Len(strs) = 1 THEN Head(strs)
  ELSE Head(strs) \o <<Space>> \o JoinWithSpaces(Tail(strs))

\* A string holds one sentence: no terminator in it is followed by whitespace.
SingleSentence(str) ==
  \A j \in 1..(Len(str) - 1) : ~(str[j] \in Terminators /\ str[j + 1] \in Whitespace)

\* C16: every chunk returned by createSmartChunks is at most maxChars long,
\* unless it is a single sentence that is itself longer than maxChars.
C16_ChunkSizeBound ==
  Evaluated("createSmartChunks") =>
    LET maxChars == call.args[2]
        chunks == call.result[1]
    IN \A k \in 1..Len(chunks) :
         Len(chunks[k]) <= maxChars \/ SingleSentence(chunks[k])

\* C16 witness: a result with an oversized sentence and another chunk.
C16_Witness ==
  /\ Evaluated("createSmartChunks")
  /\ Len(call.result[1]) >= 2
  /\ \E k \in 1..Len(call.result[1]) : Len(call.result[1][k]) > call.args[2]

\* C17: the chunks of createSmartChunks joined by single spaces are the
\* whitespace-normalized, trimmed text, and no chunk is empty or blank.
C17_NoDataLoss ==
  Evaluated("createSmartChunks") =>
    LET chunks == call.result[1] IN
    /\ JoinWithSpaces(chunks) = CleanText(call.args[1])
    /\ \A k \in 1..Len(chunks) :
         \E j \in 1..Len(chunks[k]) : chunks[k][j] \notin Whitespace

\* C17 witness: a text with irregular whitespace cut into several chunks.
C17_Witness ==
  /\ Evaluated("createSmartChunks")
  /\ Len(call.result[1]) >= 2
  /\ Len(CleanText(call.args[1])) + 2 <= Len(call.args[1])

\* C18: createSmartChunks applied, with the same budget, to its chunks joined
\* by single spaces returns the same chunks.
C18_Idempotent ==
  Evaluated("createSmartChunks") =>
    createSmartChunksOfString(JoinWithSpaces(call.result[1]), call.args[2])
      = call.result[1]

\* C18 witness: several chunks, one of them made of two sentences.
C18_Witness ==
  /\ Evaluated("createSmartChunks")
  /\ Len(call.result[1]) >= 2
  /\ \E k \in 1..Len(call.result[1]) : ~SingleSentence(call.result[1][k])

\* The summed length of the first n buffers.
RECURSIVE LengthBefore(_, _)
LengthBefore(buffers, n) ==
  IF n = 0 THEN 0 ELSE LengthBefore(buffers, n - 1) + Len(buffers[n])

\* C19: concatenateAudioBuffers returns the buffers one after the other: the
\* result is as long as the inputs together and byte k of input i is at
\* offset (summed length of the inputs before i) + k.
C19_Concatenation ==
  Evaluated("concatenateAudioBuffers") =>
    LET buffers == call.args[1]
        result == call.result[1]
    IN /\ Len(result) = LengthBefore(buffers, Len(buffers))
       /\ \A i \in 1..Len(buffers) : \A k \in 1..Len(buffers[i]) :
            result[LengthBefore(buffers, i - 1) + k] = buffers[i][k]

\* C19 witness: three non-empty buffers with different contents.
C19_Witness ==
  /\ Evaluated("concatenateAudioBuffers")
  /\ Len(call.args[1]) = 3
  /\ \A i \in 1..3 : call.args[1][i] # <<>>
  /\ call.args[1][1] # call.args[1][2]
  /\ call.args[1][2] # call.args[1][3]

\* C20: for PCM of length L createWavFile produces 44 + L bytes: a header with
\* ChunkSize 36 + L, Subchunk2Size L, ByteRate 48000, BlockAlign 2 and
\* BitsPerSample 16, followed by the PCM bytes unchanged.
C20_WavHeader ==
  Evaluated("createWavFile") =>
    LET pcmData == call.args[1]
        L == Len(pcmData)
        bytes == call.result[1].bytes
    IN /\ Len(bytes) = 44 + L
       /\ ReadUint32LE(bytes, 4) = 36 + L
       /\ ReadUint32LE(bytes, 40) = L
       /\ ReadUint32LE(bytes, 28) = 48000
       /\ ReadUint16LE(bytes, 32) = 2
       /\ ReadUint16LE(bytes, 34) = 16
       /\ \A k \in 1..44 : bytes[k] \in 0..255
       /\ SubSeq(bytes, 45, 44 + L) = pcmData

\* C20 witness: a WAV file of PCM whose length does not fit one byte.
C20_Witness ==
  /\ Evaluated("createWavFile")
  /\ Len(call.args[1]) = 300

\* ------------------------------------------------------- progress reporting
\* The reported progress equals (i - start) / (n - start) * 100 for run r.
ProgressOf(r) ==
  LET p == generationState.progress
      n == Len(run[r].chunks)
  IN p[1] * (n - run[r].start) = (run[r].i - run[r].start) * 100 * p[2]

\* While run r has a pending await on chunk i, the report shows chunk i + 1 and
\* the progress of chunk i.
ReportMatches(r) ==
  Unsettled(r) =>
    /\ generationState.currentChunkIndex = run[r].i + 1
    /\ ProgressOf(r)

\* No invocation of handleGenerate starts in this step.
NoRunStarts == \A r \in Runs : run[r].pc = "idle" => run'[r].pc = "idle"

\* The reported progress does not decrease in this step.
ProgressGrows ==
  generationState'.progress[1] * generationState.progress[2]
    >= generationState.progress[1] * generationState'.progress[2]

\* When the progress becomes 100, a run has just settled and every chunk from
\* its start index on is completed with PCM.
HundredMeansComplete ==
  (generationState'.progress = <<100, 1>> /\ generationState.progress # <<100, 1>>) =>
    \E r \in Runs :
      /\ Unsettled(r)
      /\ run'[r].pc = "done"
      /\ \A k \in 1..Len(audioChunks') :
           audioChunks'[k].id >= run[r].start => IsReady(audioChunks'[k])

\* C21: while chunk i of an n-chunk run started at startIndex is processed, the
\* reported current-chunk index is i + 1 and the reported progress is
\* (i - startIndex) / (n - startIndex) * 100; the progress never decreases
\* during a run and is 100 only after every chunk from startIndex on has
\* completed.
C21_ProgressReport ==
  /\ [](\A r \in Runs : ReportMatches(r))
  /\ [][(NoRunStarts => ProgressGrows) /\ HundredMeansComplete]_vars

\* ------------------------------------------------------- image generation
\* The batch of invocation j completes, or fails, in this step.
BatchSucceeds(j) == imageJob[j].pc = "images" /\ imageJob'[j].pc = "done"
BatchFails(j) == imageJob[j].pc = "images" /\ imageJob'[j].pc = "failed"

\* A failed batch leaves the images of every chunk as they were and clears the
\* flag of its chunk.
NothingOnFailure(j) ==
  BatchFails(j) =>
    /\ Len(audioChunks') = Len(audioChunks)
    /\ \A k \in 1..Len(audioChunks) :
         /\ audioChunks'[k].images = audioChunks[k].images
         /\ audioChunks[k].id = imageJob[j].chunkIndex =>
              ~audioChunks'[k].isGeneratingImages

\* A batch whose requests all resolved appends exactly `count` images, numbered
\* 0..count-1 in their ids, to its chunk, behind the images the chunk had, and
\* clears the flag.
AllOnSuccess(j) ==
  BatchSucceeds(j) =>
    /\ Len(audioChunks') = Len(audioChunks)
    /\ \A k \in 1..Len(audioChunks) :
         IF audioChunks[k].id = imageJob[j].chunkIndex
         THEN /\ Len(audioChunks'[k].images) =
                   Len(audioChunks[k].images) + imageJob[j].count
              /\ SubSeq(audioChunks'[k].images, 1, Len(audioChunks[k].images)) =
                   audioChunks[k].images
              /\ \A m \in (Len(audioChunks[k].images) + 1)..Len(audioChunks'[k].images) :
                   /\ audioChunks'[k].images[m].id[2] = m - Len(audioChunks[k].images) - 1
                   /\ audioChunks'[k].images[m].data \in ImageUrls
              /\ ~audioChunks'[k].isGeneratingImages
         ELSE audioChunks'[k].images = audioChunks[k].images

\* No image shows up in a chunk except in the step in which a whole batch for
\* that chunk has resolved.
AwaitedJointly ==
  \A k \in 1..Len(audioChunks') :
    /\ audioChunks'[k].images # <<>>
    /\ k > Len(audioChunks) \/ audioChunks'[k].images # audioChunks[k].images
    => \E j \in Jobs : BatchSucceeds(j) /\ imageJob[j].chunkIndex = audioChunks'[k].id

\* C22: image generation for a chunk is all-or-nothing per batch: the N calls
\* are awaited jointly; if any of them fails no image of the batch is added and
\* the images the chunk had are unchanged; if all succeed exactly N images are
\* appended; in both cases the chunk's isGeneratingImages flag is cleared.
C22_AllOrNothing ==
  [][AwaitedJointly /\ \A j \in Jobs : NothingOnFailure(j) /\ AllOnSuccess(j)]_vars

\* A batch of two images was appended to a chunk and the batch after it failed:
\* the chunk holds exactly the two images and its flag is cleared.
C22_Witness ==
  /\ imageJob[1].pc = "done"
  /\ imageJob[2].pc = "failed"
  /\ \E k \in 1..Len(audioChunks) :
       /\ Len(audioChunks[k].images) = 2
       /\ \A m \in 1..2 : audioChunks[k].images[m].id[2] = m - 1
       /\ ~audioChunks[k].isGeneratingImages

\* ------------------------------------------------------------ cancellation
\* Run r has returned through the code after the chunk loop, Stop having been
\* pressed while it was unsettled.
EndedByStop(r) == run[r].pc = "done" /\ obs[r].cancelRequested

\* C23: cancellation is not reported as an error: when a run ends because Stop
\* was requested (also during a retry backoff wait or a pacing wait), the run
\* state after it settles carries no error or 'retrying' message.
C23_CancelNotAnError ==
  \A r \in Runs : EndedByStop(r) => generationState.error = None

\* ----------------------------------------------------------- chunk status
\* Run r settles in this step.
SettlesNow(r) == Unsettled(r) /\ run'[r].pc \in {"done", "failed"}

\* C24: each chunk follows pending -> generating -> completed or error: once a
\* run has settled (by success, terminal failure or cancellation) no chunk is
\* left in status 'generating', and the chunk on which the run failed
\* terminally has status 'error'.
C24_ChunkStatusMachine ==
  [][\A r \in Runs :
       SettlesNow(r) =>
         /\ \A k \in 1..Len(audioChunks') : audioChunks'[k].status # "generating"
         /\ run'[r].pc = "failed" =>
              \A k \in 1..Len(audioChunks') :
                audioChunks'[k].id = obs'[r].failedChunk =>
                  audioChunks'[k].status = "error"]_vars

\* --------------------------------------------------------------- artifacts
\* The ids of the chunks completed with PCM.
ReadyIds(chunks) == {chunks[k].id : k \in {j \in 1..Len(chunks) : IsReady(chunks[j])}}

\* The PCM of the completed chunks among the first n, in increasing index order.
RECURSIVE PcmUpTo(_, _)
PcmUpTo(chunks, n) ==
  IF n = 0 THEN <<>>
  ELSE PcmUpTo(chunks, n - 1) \o (IF IsReady(chunks[n]) THEN chunks[n].data[1] ELSE <<>>)

\* The set of indices has no gap.
Contiguous(ids) == \A a \in ids, b \in ids : \A c \in a..b : c \in ids

\* The artifact, when there is one, carries the PCM of the completed chunks in
\* index order (behind the 44-byte header of a WAV file, as the samples given to
\* the encoder of an MP3 file), and these chunks have no gap.
ArtifactInOrder(blob, chunks) ==
  blob # None =>
    IF blob[1].type = "audio/wav"
    THEN SubSeq(blob[1].bytes, 45, Len(blob[1].bytes)) = PcmUpTo(chunks, Len(chunks))
    ELSE blob[1].bytes = Mp3EncoderInput(Samples(PcmUpTo(chunks, Len(chunks))))

ArtifactContiguous(blob, chunks) == blob # None => Contiguous(ReadyIds(chunks))

\* C25: every assembled artifact, preview or final, is the concatenation in
\* increasing index order of the PCM of the chunks completed at that moment,
\* and those chunks form a contiguous index range, also after several runs,
\* stops and resumes with different start indices.
C25_ArtifactContiguous ==
  /\ [](/\ ArtifactInOrder(PreviewSource(audioChunks), audioChunks)
        /\ ArtifactContiguous(PreviewSource(audioChunks), audioChunks))
  /\ [][finalBlob' # finalBlob =>
          /\ ArtifactInOrder(finalBlob', audioChunks')
          /\ ArtifactContiguous(finalBlob', audioChunks')]_vars

\* --------------------------------------------------- lifetime of the results
\* An invocation of handleGenerate starts in this step.
RunStarts == \E r \in Runs : run[r].pc = "idle" /\ run'[r].pc # "idle"

\* No chunk is completed with PCM after this step.
NoResultsLeft == \A k \in 1..Len(audioChunks') : ~IsReady(audioChunks'[k])

\* C26: chunk results do not survive a new run or a manuscript edit: after
\* Generate is pressed, or after the text is changed, no chunk carries status
\* completed with PCM produced by an earlier run.
C26_ResultsDiscarded ==
  [][(RunStarts \/ text' # text) => NoResultsLeft]_vars

\* ------------------------------------------------------ fatal failed attempts
\* The failed attempt of this step is fatal by the rule: not a rate limit and at
\* least the 3rd attempt on the chunk, or the 15th attempt.
FatalByRule(r) ==
  \/ ~RateLimitNow(r) /\ obs[r].callsForChunk >= 3
  \/ obs[r].callsForChunk >= 15

\* C27: a failed attempt terminates the run exactly when it is a non-rate-limit
\* failure and at least the 3rd failed attempt on the chunk, or it is the 15th
\* failed attempt; rate-limit failures before it do not spare the run, and a
\* non-rate-limit failure on attempt 1 or 2 is retried unless cancelled.
C27_FatalExactly ==
  [][\A r \in Runs :
       /\ CallFailsNow(r) =>
            /\ run'[r].pc = "failed" <=> FatalByRule(r)
            /\ obs[r].callsForChunk = run[r].attempts + 1
       /\ (run[r].pc = "backoff" /\ run'[r] # run[r]
              /\ obs[r].lastFailure = "other" /\ ~abortRef)
            => (run'[r].pc = "call" /\ run'[r].i = run[r].i
                  /\ obs[r].callsForChunk < 3
                  /\ obs'[r].callsForChunk = obs[r].callsForChunk + 1)]_vars

\* C27 witness: a run failed on a non-rate-limit failure that followed a
\* rate-limit failure on the same chunk.
C27_Witness ==
  \E r \in Runs :
    /\ run[r].pc = "failed"
    /\ ~obs[r].lastError[1].isRateLimit
    /\ obs[r].nonRateLimitStreak = 1

\* ------------------------------------------------ the call in flight at Stop
\* The pending call of run r was dispatched before Stop was pressed.
StoppedInFlight(r) ==
  run[r].pc = "call" /\ obs[r].cancelRequested /\ ~obs[r].calledAfterStop

\* The pending call of run r returns PCM in this step.
ReturnsPcm(r) == run[r].pc = "call" /\ Len(obs'[r].returned) > Len(obs[r].returned)

\* C28: if Stop is requested while a synthesis call is in flight and the call
\* then returns PCM, the PCM is not recorded: the run returns without marking
\* the chunk completed (the branch that also downloads it), so the PCM is in no
\* artifact assembled afterwards.
C28_StoppedCallDropped ==
  [][\A r \in Runs :
       (StoppedInFlight(r) /\ ReturnsPcm(r)) =>
         (run'[r].pc = "done" /\ audioChunks' = audioChunks)]_vars

\* ------------------------------------------------------------ style prompt
\* C29: for one manuscript the illustration style description is requested at
\* most once: all image requests issued between two text edits, also those of
\* invocations for different chunks that overlap in time, use the same style
\* prompt.
C29_OneStylePerManuscript ==
  /\ imageObs.styleRequests <= 1
  /\ Cardinality(imageObs.stylesUsed) <= 1

\* ------------------------------------------------------------- start index
\* Run r starts in this step.
StartsNow(r) == run[r].pc = "idle" /\ run'[r].pc # "idle"

\* C30: whenever a run starts, 0 <= startIndex < number of chunks to process,
\* after any sequence of text edits, chunk previews and start-chunk selections;
\* hence totalChunksToGenerate >= 1 and the progress computation does not
\* divide by zero.
C30_StartIndexInRange ==
  [][\A r \in Runs :
       StartsNow(r) =>
         /\ 0 <= startChunkIndex
         /\ startChunkIndex < generationState'.totalChunks
         /\ run'[r].pc = "call"
         /\ run'[r].start = startChunkIndex
         /\ Len(run'[r].chunks) = generationState'.totalChunks
         /\ Len(run'[r].chunks) - run'[r].start >= 1
         /\ generationState'.progress = <<0, 1>>]_vars

\* C30 witness: a run started at the second of two chunks, selected after a
\* preview.
C30_Witness ==
  \E r \in Runs :
    /\ run[r].pc = "call"
    /\ run[r].start = 1
    /\ run[r].i = 1
    /\ Len(run[r].chunks) = 2
    /\ previewChunks = run[r].chunks

====
